---- MODULE Spec2Model ----
(***************************************************************************)
(* Model of the requirements-elicitation dialogue of okto-hackathon:       *)
(*   src/lambda/functions/start_specification.py  (dialogue start)         *)
(*   src/lambda/functions/process_answer.py       (one dialogue turn)      *)
(*   src/lambda/functions/bedrock_client.py       (planner, guard,         *)
(*                                                 finalization)           *)
(* Texts are TLA+ strings handled character by character, the way the      *)
(* Python code handles them (lower, strip, split, substring search).       *)
(* A mapping question -> answer (a Python dict, insertion ordered) is a    *)
(* sequence of records [q, a] with pairwise different q.                   *)
(***************************************************************************)
EXTENDS Integers, Sequences, FiniteSets, TLC

(***************************************************************************)
(* Text primitives (Python str methods used by the source).                *)
(***************************************************************************)
\* str.lower and str.upper, letter by letter (the letters of Portuguese).
LowerOf ==
  ("A" :> "a") @@ ("B" :> "b") @@ ("C" :> "c") @@ ("D" :> "d") @@ ("E" :> "e") @@ ("F" :> "f") @@
  ("G" :> "g") @@ ("H" :> "h") @@ ("I" :> "i") @@ ("J" :> "j") @@ ("K" :> "k") @@ ("L" :> "l") @@
  ("M" :> "m") @@ ("N" :> "n") @@ ("O" :> "o") @@ ("P" :> "p") @@ ("Q" :> "q") @@ ("R" :> "r") @@
  ("S" :> "s") @@ ("T" :> "t") @@ ("U" :> "u") @@ ("V" :> "v") @@ ("W" :> "w") @@ ("X" :> "x") @@
  ("Y" :> "y") @@ ("Z" :> "z") @@ ("Á" :> "á") @@ ("Â" :> "â") @@ ("Ã" :> "ã") @@ ("Ç" :> "ç") @@
  ("É" :> "é") @@ ("Ê" :> "ê") @@ ("Í" :> "í") @@ ("Ó" :> "ó") @@ ("Ô" :> "ô") @@ ("Õ" :> "õ") @@
  ("Ú" :> "ú")

UpperOf ==
  ("a" :> "A") @@ ("b" :> "B") @@ ("c" :> "C") @@ ("d" :> "D") @@ ("e" :> "E") @@ ("f" :> "F") @@
  ("g" :> "G") @@ ("h" :> "H") @@ ("i" :> "I") @@ ("j" :> "J") @@ ("k" :> "K") @@ ("l" :> "L") @@
  ("m" :> "M") @@ ("n" :> "N") @@ ("o" :> "O") @@ ("p" :> "P") @@ ("q" :> "Q") @@ ("r" :> "R") @@
  ("s" :> "S") @@ ("t" :> "T") @@ ("u" :> "U") @@ ("v" :> "V") @@ ("w" :> "W") @@ ("x" :> "X") @@
  ("y" :> "Y") @@ ("z" :> "Z") @@ ("á" :> "Á") @@ ("â" :> "Â") @@ ("ã" :> "Ã") @@ ("ç" :> "Ç") @@
  ("é" :> "É") @@ ("ê" :> "Ê") @@ ("í" :> "Í") @@ ("ó" :> "Ó") @@ ("ô" :> "Ô") @@ ("õ" :> "Õ") @@
  ("ú" :> "Ú")

MapChar(c, map) == IF c \in DOMAIN map THEN map[c] ELSE c

RECURSIVE Lower(_)
Lower(s) == IF s = "" THEN "" ELSE MapChar(Head(s), LowerOf) \o Lower(Tail(s))

RECURSIVE Upper(_)
Upper(s) == IF s = "" THEN "" ELSE MapChar(Head(s), UpperOf) \o Upper(Tail(s))

CharAt(s, i) == SubSeq(s, i, i)

IsSpace(c) == c \in {" ", "\n", "\t"}

RECURSIVE LStrip(_)
LStrip(s) == IF s # "" /\ IsSpace(Head(s)) THEN LStrip(Tail(s)) ELSE s

RECURSIVE RStrip(_)
RStrip(s) ==
  IF s # "" /\ IsSpace(CharAt(s, Len(s))) THEN RStrip(SubSeq(s, 1, Len(s) - 1)) ELSE s

Strip(s) == RStrip(LStrip(s))

\* Python `k in s` on strings: k occurs in s as a contiguous substring.
Contains(s, k) ==
  \E i \in 1..(Len(s) - Len(k) + 1) : SubSeq(s, i, i + Len(k) - 1) = k

\* any(word in s for word in words)
ContainsAny(s, words) == \E k \in words : Contains(s, k)

\* Python s.split(): the maximal runs of non-whitespace characters, as a set
\* (the source only ever builds a set of the words).
WordSet(s) ==
  LET starts == { i \in 1..Len(s) :
                    ~IsSpace(CharAt(s, i)) /\ (i = 1 \/ IsSpace(CharAt(s, i - 1))) }
      ends   == { j \in 1..Len(s) :
                    ~IsSpace(CharAt(s, j)) /\ (j = Len(s) \/ IsSpace(CharAt(s, j + 1))) }
      EndOf(i) == CHOOSE j \in ends : j >= i /\ \A k \in ends : k >= i => j <= k
  IN  { SubSeq(s, i, EndOf(i)) : i \in starts }

(***************************************************************************)
(* Mappings question -> answer.                                            *)
(***************************************************************************)
Keys(d) == { d[i].q : i \in 1..Len(d) }

HasKey(d, q) == \E i \in 1..Len(d) : d[i].q = q

\* (an overwritten pair moved to the end of the history)
Upsert_MovesToEnd(d, q, a) ==
  Append(SelectSeq(d, LAMBDA p : p.q # q), [q |-> q, a |-> a])

\* (a history that appends a pair even when the question is already a key)
Upsert_AlwaysAppends(d, q, a) == Append(d, [q |-> q, a |-> a])

\* updated_answers = previous_answers.copy(); updated_answers[q] = a
Upsert(d, q, a) ==
  IF HasKey(d, q)
  THEN [i \in 1..Len(d) |-> IF d[i].q = q THEN [q |-> q, a |-> a] ELSE d[i]]
  ELSE Append(d, [q |-> q, a |-> a])

(***************************************************************************)
(* Program constants.                                                      *)
(***************************************************************************)
SENTINEL == "ESPECIFICACAO_COMPLETA"
MaxQuestions == 5
MinAnswerLen == 5
MinIdeaLen == 10
ProgressCap == 95

Categories == {"business", "technical", "compliance", "ux", "operational"}

CategoryKeywords ==
  [ business    |-> {"negócio", "objetivo", "problema", "cliente", "receita", "benefício", "impacto"},
    technical   |-> {"técnico", "integração", "sistema", "api", "backend", "internet banking", "pix"},
    compliance  |-> {"compliance", "bacen", "regulament", "audit", "legal", "segurança"},
    ux          |-> {"ux", "tela", "fluxo", "usuário", "interface", "experiência"},
    operational |-> {"operacion", "suporte", "monitor", "erro", "rollback"} ]

ComplaintPhrases ==
  {"já fez essa pergunta", "vc já fez", "você já perguntou", "pergunta repetida"}

StopWords == {"para", "esta", "como", "qual", "onde", "quando"}

ValidAreas ==
  {"PIX Backend", "Internet Banking", "Compliance", "Financeiro", "Suporte", "TMS", "Produto"}

(***************************************************************************)
(* process_answer.py: the tests lambda_handler makes on its texts.         *)
(***************************************************************************)
\* (the phrases searched in the answer as typed, not lower-cased)
HasComplaint_CaseSensitive(answer) == ContainsAny(answer, ComplaintPhrases)

\* any(phrase in answer.lower() for phrase in [...])
HasComplaint(answer) == ContainsAny(Lower(answer), ComplaintPhrases)

\* (a length test that lets 3 and 4 characters through)
TooShort_Below3(answer) == Len(answer) < 3

\* len(answer) < 5
TooShort(answer) == Len(answer) < MinAnswerLen

\* (the sentinel recognised only in upper case)
IsComplete_CaseSensitive(next_question) == next_question = SENTINEL

\* next_question.upper() == "ESPECIFICACAO_COMPLETA"
IsComplete(next_question) == Upper(next_question) = SENTINEL

(***************************************************************************)
(* The texts the model works with: what callers send and what the          *)
(* generator returns.                                                      *)
(***************************************************************************)
Ideas ==
  {"Login facial com PIX",      \* valid, names fallback stakeholder keywords
   "  PIX já  ",                \* 6 characters after trimming
   "   "}                       \* empty after trimming

Answers ==
  {"  Ajuda o cliente ",        \* valid after trimming, business
   "Sim, claro",                \* valid, no category
   "VOCÊ JÁ PERGUNTOU isso",    \* valid, complaint phrase in upper case
   " abc ",                     \* 3 characters after trimming
   "   "}                       \* empty after trimming

\* What the generator may return when asked for a question with a focus: a
\* question on that focus, a question without any keyword, or the sentinel
\* in lower case.
FocusQuestion ==
  [ business       |-> "Como beneficia o cliente?",
    business_value |-> "Qual o impacto?",
    technical      |-> "Quais sistemas precisam de integração?",
    compliance     |-> "Há regras do BACEN?",
    ux             |-> "Como fica a tela?",
    final          |-> "Precisa de rollback?" ]

Focuses == DOMAIN FocusQuestion

AnyFocusTexts ==
  {"E aí?",                            \* no keyword at all
   " especificacao_completa\n"}        \* the sentinel, lower case, untrimmed

QuestionTexts == { FocusQuestion[f] : f \in Focuses } \cup AnyFocusTexts

\* Questions without any category keyword, for calls of the planner alone:
\* the second shares 3 of its 4 keywords with the first, the third 2 of 4,
\* the fourth has 2 keywords and shares 1 with the second, the fifth has
\* only stopwords and short words, the sixth has a single keyword.
GuardQuestions ==
  {"Cadastro boleto limite extrato",
   "cadastro boleto limite saldo",
   "cadastro boleto agenda parcela",
   "saldo diario",
   "Como qual e?",
   "CADASTRO ja"}

DocumentTexts == {" # SPEC-spec-1 \n"}

MaxHistory == 6   \* the longest previous_answers a caller sends
MaxPlanned == 5   \* the longest history handed to the planner alone

\* str.strip, evaluated once for every text a handler trims.
StripTable ==
  [t \in Ideas \cup Answers \cup QuestionTexts \cup GuardQuestions \cup DocumentTexts |->
     Strip(t)]
Stripped(t) == StripTable[t]

\* The questions that can become keys of a history, the answers that can
\* become its values, and the ideas a dialogue can have.
KeyTexts == { Stripped(t) : t \in QuestionTexts \cup GuardQuestions } \cup {SENTINEL}
AnswerTexts == { Stripped(t) : t \in Answers }
IdeaTexts == { Stripped(t) : t \in Ideas }

\* HasComplaint, evaluated once for every answer.
ComplaintTable == [a \in AnswerTexts |-> HasComplaint(a)]

\* IsComplete, evaluated once for every question text.
CompleteTable == [q \in KeyTexts |-> IsComplete(q)]

\* The answers a history can hold: process_answer stores no answer that is
\* empty, too short or a complaint.
StoredAnswers == { a \in AnswerTexts : a # "" /\ ~TooShort(a) /\ ~ComplaintTable[a] }

(***************************************************************************)
(* bedrock_client.py: category classification and coverage.                *)
(***************************************************************************)
\* The categories one pair adds (body of the loop over previous_answers).
Classify(question, answer) ==
  LET question_and_answer == Lower(question \o " " \o answer)
  IN  { c \in Categories : ContainsAny(question_and_answer, CategoryKeywords[c]) }

\* Classify, evaluated once for every pair of texts.
ClassifyTable == [q \in KeyTexts, a \in AnswerTexts |-> Classify(q, a)]

\* (a loop that keeps only the categories of the last pair)
AnsweredCategories_LastPairOnly(previous_answers) ==
  IF Len(previous_answers) = 0 THEN {}
  ELSE ClassifyTable[previous_answers[Len(previous_answers)].q,
                     previous_answers[Len(previous_answers)].a]

\* answered_categories after the loop.
AnsweredCategories(previous_answers) ==
  UNION { ClassifyTable[previous_answers[i].q, previous_answers[i].a] :
            i \in 1..Len(previous_answers) }

\* The category each focus hint targets; the closing hint stands for the
\* closing (operational) slot.
FocusCategory ==
  [ business       |-> "business",
    business_value |-> "business",
    technical      |-> "technical",
    compliance     |-> "compliance",
    ux             |-> "ux",
    final          |-> "operational" ]

\* (a policy that tests what is covered but not the number of questions)
get_next_category_focus_NoSlots(answered_categories, total_questions) ==
  IF total_questions = 0 THEN "business"
  ELSE IF "business" \notin answered_categories THEN "business_value"
  ELSE IF "technical" \notin answered_categories THEN "technical"
  ELSE IF "compliance" \notin answered_categories THEN "compliance"
  ELSE IF "ux" \notin answered_categories THEN "ux"
  ELSE "final"

\* (a policy that goes by the number of questions alone)
get_next_category_focus_ByCountOnly(answered_categories, total_questions) ==
  IF total_questions = 0 THEN "business"
  ELSE IF total_questions = 1 THEN "business_value"
  ELSE IF total_questions = 2 THEN "technical"
  ELSE IF total_questions = 3 THEN "compliance"
  ELSE IF total_questions = 4 THEN "ux"
  ELSE "final"

\* _get_next_category_focus: the focus hint, named by the category it targets
\* ("business_value" is the second business hint, "final" the closing one).
get_next_category_focus(answered_categories, total_questions) ==
  IF total_questions = 0 THEN "business"
  ELSE IF total_questions = 1 /\ "business" \notin answered_categories THEN "business_value"
  ELSE IF total_questions <= 2 /\ "technical" \notin answered_categories THEN "technical"
  ELSE IF total_questions <= 3 /\ "compliance" \notin answered_categories THEN "compliance"
  ELSE IF total_questions <= 4 /\ "ux" \notin answered_categories THEN "ux"
  ELSE "final"

\* The keyword set of a question: words longer than 3 that are no stopwords.
KeywordSet(question) ==
  { w \in WordSet(Lower(question)) : Len(w) > 3 /\ w \notin StopWords }

\* KeywordSet, evaluated once for every question text.
KeywordTable == [q \in KeyTexts |-> KeywordSet(q)]

Min(a, b) == IF a <= b THEN a ELSE b
\* (the smaller of the two taken for the larger)
Max_Smaller(a, b) == IF a >= b THEN b ELSE a

Max(a, b) == IF a >= b THEN a ELSE b

\* (an overlap of exactly one half counted as too much)
OverlapsTooMuch_HalfIncluded(new_keywords, prev_keywords) ==
  /\ Cardinality(new_keywords) > 0
  /\ Cardinality(prev_keywords) > 0
  /\ 2 * Cardinality(new_keywords \cap prev_keywords)
       >= Min(Cardinality(new_keywords), Cardinality(prev_keywords))

\* overlap / min(len(new), len(prev)) > 0.5, in integers.
OverlapsTooMuch(new_keywords, prev_keywords) ==
  /\ Cardinality(new_keywords) > 0
  /\ Cardinality(prev_keywords) > 0
  /\ 2 * Cardinality(new_keywords \cap prev_keywords)
       > Min(Cardinality(new_keywords), Cardinality(prev_keywords))

\* (a comparison that leaves out the last question of the history)
is_question_repetitive_SkipsLast(new_question, previous_answers) ==
  \E i \in 1..(Len(previous_answers) - 1) :
    OverlapsTooMuch(KeywordTable[new_question], KeywordTable[previous_answers[i].q])

\* _is_question_repetitive
is_question_repetitive(new_question, previous_answers) ==
  \E i \in 1..Len(previous_answers) :
    OverlapsTooMuch(KeywordTable[new_question], KeywordTable[previous_answers[i].q])

(***************************************************************************)
(* The external text generator.  One outcome per call: the call raises     *)
(* (ok = FALSE) or returns a text.                                         *)
(***************************************************************************)
Failure == [ok |-> FALSE, text |-> ""]
Returns(t) == [ok |-> TRUE, text |-> t]
\* The same for the stakeholder call, whose text is a token sequence.
FailureTokens == [ok |-> FALSE, text |-> <<>>]

(***************************************************************************)
(* bedrock_client.py: ask_specification_question.                          *)
(* The result records the returned text together with what the call did:   *)
(* total (len(previous_answers)), the categories, the focus chosen ("none" *)
(* when no focus was chosen), whether the generator was invoked and the    *)
(* return statement taken (via).                                           *)
(***************************************************************************)
NoAsk ==
  [called |-> FALSE, total |-> 0, answered_categories |-> {}, focus |-> "none",
   invoked |-> FALSE, returned |-> "", via |-> "none"]

\* (the cap tested with > instead of >=)
CapReached_OffByOne(total_questions) == total_questions > MaxQuestions

\* if total_questions >= 5
CapReached(total_questions) == total_questions >= MaxQuestions

ask_specification_question(context, previous_answers, gen_q) ==
  LET answered_categories == AnsweredCategories(previous_answers)
      total_questions     == Len(previous_answers)
      base == [NoAsk EXCEPT !.called = TRUE, !.total = total_questions,
                            !.answered_categories = answered_categories]
  IN  IF CapReached(total_questions)
      THEN [base EXCEPT !.returned = SENTINEL, !.via = "cap"]
      ELSE LET next_focus == get_next_category_focus(answered_categories, total_questions)
               invoked    == [base EXCEPT !.focus = next_focus, !.invoked = TRUE]
           IN  IF ~gen_q.ok
               THEN [invoked EXCEPT !.returned = SENTINEL, !.via = "error"]
               ELSE LET question == Stripped(gen_q.text)
                    IN  IF is_question_repetitive(question, previous_answers)
                        THEN [invoked EXCEPT !.returned = SENTINEL, !.via = "repetitive"]
                        ELSE [invoked EXCEPT !.returned = question, !.via = "generated"]

(***************************************************************************)
(* bedrock_client.py: identify_stakeholders and its fallback.              *)
(* The generator's stakeholder text is a sequence of tokens: "{", "}",     *)
(* prose ("txt") and the member list of a JSON object ("members", with the *)
(* value it decodes to; "junk" for members that do not decode).  A JSON    *)
(* value is [has_stakeholders, stakeholders]; an entry of the list is      *)
(* [is_object, area, reason], area = NoneArea when the key is absent.      *)
(***************************************************************************)
NoneArea == "<None>"
NoBody == [has_stakeholders |-> FALSE, stakeholders |-> <<>>]
Tok(t) == [t |-> t, body |-> NoBody]
Members(body) == [t |-> "members", body |-> body]
Entry(area) == [is_object |-> TRUE, area |-> area, reason |-> "generator"]
NotAnObject == [is_object |-> FALSE, area |-> NoneArea, reason |-> "generator"]
StakeholderList(entries) == [has_stakeholders |-> TRUE, stakeholders |-> entries]

\* str.find / str.rfind: 0-based index of the first / last occurrence, or -1.
Find(text, t) ==
  IF \E i \in 1..Len(text) : text[i].t = t
  THEN (CHOOSE i \in 1..Len(text) :
          text[i].t = t /\ \A j \in 1..(i - 1) : text[j].t # t) - 1
  ELSE -1

RFind(text, t) ==
  IF \E i \in 1..Len(text) : text[i].t = t
  THEN (CHOOSE i \in 1..Len(text) :
          text[i].t = t /\ \A j \in (i + 1)..Len(text) : text[j].t # t) - 1
  ELSE -1

\* text[start:end] for start, end >= 0.
Slice(text, start, end) == SubSeq(text, start + 1, Min(end, Len(text)))

\* (a decoder that takes anything between two braces for an object)
JsonDecodes_AnyBraces(json_str) ==
  /\ Len(json_str) = 3
  /\ json_str[1].t = "{"
  /\ json_str[3].t = "}"

\* json.loads(json_str) returns (does not raise JSONDecodeError).
JsonDecodes(json_str) ==
  /\ Len(json_str) = 3
  /\ json_str[1].t = "{"
  /\ json_str[2].t = "members"
  /\ json_str[3].t = "}"

FallbackEntry(area, reason) == [is_object |-> TRUE, area |-> area, reason |-> reason]
OptionalEntry(cond, e) == IF cond THEN <<e>> ELSE <<>>

\* _get_fallback_stakeholders
FallbackStakeholders(feature_context) ==
  LET context_lower == Lower(feature_context)
  IN  [source |-> "fallback",
       stakeholders |->
            OptionalEntry(ContainsAny(context_lower,
                            {"internet banking", "login", "facial", "autenticação", "interface", "tela"}),
                          FallbackEntry("Internet Banking", "interface"))
         \o OptionalEntry(ContainsAny(context_lower, {"pix", "pagamento", "transação", "api"}),
                          FallbackEntry("PIX Backend", "pagamento"))
         \o OptionalEntry(ContainsAny(context_lower, {"segurança", "facial", "autenticação", "biometria"}),
                          FallbackEntry("Compliance", "segurança"))
         \o OptionalEntry(ContainsAny(context_lower, {"monitoramento", "log", "infraestrutura"}),
                          FallbackEntry("TMS", "monitoramento"))
         \o <<FallbackEntry("Suporte", "sempre")>>]

RECURSIVE Joined(_, _)
\* The texts " ".join builds from at most n answers, "" included.
Joined(n, texts) ==
  IF n = 0 THEN {""}
  ELSE Joined(n - 1, texts) \cup texts
       \cup { a \o " " \o j : a \in texts, j \in Joined(n - 1, texts) \ {""} }

\* The contexts the fallback can be given: "" and idea + " " + answers, for
\* the ideas that pass validation and the answers a history can hold.
FeatureContexts ==
  {""} \cup { i \o " " \o j :
                i \in { t \in IdeaTexts : Len(t) >= MinIdeaLen },
                j \in Joined(MaxHistory + 1, StoredAnswers) }

\* FallbackStakeholders, evaluated once for every context.
FallbackTable == [c \in FeatureContexts |-> FallbackStakeholders(c)]
get_fallback_stakeholders(feature_context) == FallbackTable[feature_context]

RECURSIVE JoinValues(_)
\* " ".join(questions_answers.values())
JoinValues(d) ==
  IF Len(d) = 0 THEN ""
  ELSE IF Len(d) = 1 THEN d[1].a
  ELSE d[1].a \o " " \o JoinValues(Tail(d))

FeatureContext(spec_data) ==
  spec_data.initial_idea \o " " \o JoinValues(spec_data.questions_answers)

identify_stakeholders(spec_data, gen_s) ==
  LET feature_context == FeatureContext(spec_data)
  IN  IF ~gen_s.ok
      THEN get_fallback_stakeholders("")
      ELSE LET response_text == gen_s.text
               start == Find(response_text, "{")
               end   == RFind(response_text, "}") + 1
           IN  IF start # -1 /\ end # -1
               THEN LET json_str == Slice(response_text, start, end)
                    IN  IF ~JsonDecodes(json_str)
                        THEN get_fallback_stakeholders(feature_context)
                        ELSE LET stakeholders_data == json_str[2].body
                                 entries == IF stakeholders_data.has_stakeholders
                                            THEN stakeholders_data.stakeholders
                                            ELSE <<>>
                             IN  IF \E i \in 1..Len(entries) : ~entries[i].is_object
                                 THEN get_fallback_stakeholders("")
                                 ELSE [source |-> "generator",
                                       stakeholders |->
                                         SelectSeq(entries, LAMBDA s : s.area \in ValidAreas)]
               ELSE get_fallback_stakeholders(feature_context)

(***************************************************************************)
(* bedrock_client.py: generate_final_document.                             *)
(***************************************************************************)
ErrorDocument == "# Erro ao Gerar Documento"

generate_final_document(spec_data, gen_d) ==
  IF gen_d.ok THEN Stripped(gen_d.text) ELSE ErrorDocument

(***************************************************************************)
(* Responses.  Every response has the same fields; the ones a response     *)
(* does not carry keep the values of NoResponse.                           *)
(***************************************************************************)
NoResponse ==
  [statusCode |-> 0, status |-> "none", error |-> "", spec_id |-> "",
   first_question |-> "", next_question |-> "", question_number |-> 0,
   previous_answers |-> <<>>,
   current |-> 0, estimated_total |-> 0, percentage |-> 0,
   stakeholders |-> <<>>, final_document |-> "",
   total_questions |-> 0, all_answers |-> <<>>]

\* What one run of a handler did besides answering: the external calls in
\* order, the question-planning call, the specification record it built
\* (spec_data['questions_answers']) and where the stakeholders came from.
NoTrace ==
  [calls |-> <<>>, ask |-> NoAsk, has_record |-> FALSE, record |-> <<>>,
   stakeholder_source |-> "none"]

Outcome(response, trace) == [response |-> response, trace |-> trace]

\* create_error_response
create_error_response(message) ==
  [NoResponse EXCEPT !.statusCode = 400, !.status = "error", !.error = message]

Preflight == [NoResponse EXCEPT !.statusCode = 200, !.status = "preflight"]

\* (a request counted for every planning decision, the capped one included)
AskCalls_Always(ask) == <<"question">>

\* The calls a run of ask_specification_question made.
AskCalls(ask) == IF ask.invoked THEN <<"question">> ELSE <<>>

\* Finalization as both completion paths of process_answer do it:
\* identify_stakeholders, then generate_final_document, then the response.
Finalize(event, questions_answers, calls_before, ask, gen) ==
  LET spec_data == [spec_id |-> event.spec_id, initial_idea |-> event.initial_idea,
                    questions_answers |-> questions_answers]
      stakeholders_result == identify_stakeholders(spec_data, gen.s)
      final_document      == generate_final_document(spec_data, gen.d)
  IN  Outcome([NoResponse EXCEPT !.statusCode = 200, !.status = "completed",
                                 !.spec_id = event.spec_id,
                                 !.stakeholders = stakeholders_result.stakeholders,
                                 !.final_document = final_document,
                                 !.total_questions = Len(questions_answers),
                                 !.all_answers = questions_answers],
              [calls |-> calls_before \o <<"stakeholders", "document">>,
               ask |-> ask, has_record |-> TRUE, record |-> questions_answers,
               stakeholder_source |-> stakeholders_result.source])

\* (a complaint path that records the complaint as the answer)
ComplaintRecord_Upserts(previous_answers, current_question, answer) ==
  Upsert(previous_answers, current_question, answer)

\* 'questions_answers': previous_answers, the history the complaint path
\* finalizes with: the answer of the turn is left out.
ComplaintRecord(previous_answers, current_question, answer) == previous_answers

(***************************************************************************)
(* process_answer.py: lambda_handler.                                      *)
(* event: [httpMethod, spec_id, current_question, answer,                  *)
(*         previous_answers, initial_idea]; a missing field is "".         *)
(* gen:   [q, s, d], the outcome of each generator call the run may make.  *)
(* Creating the BedrockClient (a local object, no request is sent) is      *)
(* taken to succeed, so the two branches that report its failure are left  *)
(* out.                                                                    *)
(***************************************************************************)
process_answer(event, gen) ==
  LET answer == Stripped(event.answer)
      previous_answers == event.previous_answers
  IN  IF event.httpMethod = "OPTIONS" THEN Outcome(Preflight, NoTrace)
      ELSE IF event.spec_id = ""
      THEN Outcome(create_error_response("Campo \"spec_id\" é obrigatório"), NoTrace)
      ELSE IF event.current_question = ""
      THEN Outcome(create_error_response("Campo \"current_question\" é obrigatório"), NoTrace)
      ELSE IF answer = ""
      THEN Outcome(create_error_response("Campo \"answer\" é obrigatório"), NoTrace)
      ELSE IF TooShort(answer)
      THEN Outcome(create_error_response("A resposta deve ter pelo menos 5 caracteres"), NoTrace)
      ELSE IF ComplaintTable[answer]
      THEN Finalize(event,
                    ComplaintRecord(previous_answers, event.current_question, answer),
                    <<>>, NoAsk, gen)
      ELSE LET updated_answers == Upsert(previous_answers, event.current_question, answer)
               ask == ask_specification_question(event.initial_idea, updated_answers, gen.q)
               next_question == ask.returned
               is_complete   == CompleteTable[next_question]
           IN  IF is_complete
               THEN Finalize(event, updated_answers, AskCalls(ask), ask, gen)
               ELSE LET question_number == Len(updated_answers) + 1
                        estimated_total == Max(5, Len(updated_answers) + 1)
                        progress_percentage ==
                          Min((Len(updated_answers) * 100) \div estimated_total, ProgressCap)
                    IN  Outcome([NoResponse EXCEPT
                                   !.statusCode = 200, !.status = "in_progress",
                                   !.spec_id = event.spec_id,
                                   !.next_question = next_question,
                                   !.question_number = question_number,
                                   !.previous_answers = updated_answers,
                                   !.current = Len(updated_answers),
                                   !.estimated_total = estimated_total,
                                   !.percentage = progress_percentage],
                                [NoTrace EXCEPT !.calls = AskCalls(ask), !.ask = ask])

(***************************************************************************)
(* start_specification.py: lambda_handler.                                 *)
(* event: [httpMethod, has_body, idea].  The handler never looks at the    *)
(* method; a request without a body (body = None) makes body.get raise,    *)
(* which the outer except turns into a 500.                                *)
(***************************************************************************)
SPEC_ID == "spec-1"

start_specification(event, gen) ==
  LET initial_idea == Stripped(event.idea)
      internal_error == [NoResponse EXCEPT !.statusCode = 500, !.status = "error",
                                           !.error = "Erro interno do servidor"]
  IN  IF ~event.has_body THEN Outcome(internal_error, NoTrace)
      ELSE IF initial_idea = ""
      THEN Outcome(create_error_response("Campo \"idea\" é obrigatório"), NoTrace)
      ELSE IF Len(initial_idea) < MinIdeaLen
      THEN Outcome(create_error_response("A ideia deve ter pelo menos 10 caracteres"), NoTrace)
      ELSE LET ask == ask_specification_question(initial_idea, <<>>, gen.q)
               first_question == ask.returned
           IN  Outcome([NoResponse EXCEPT !.statusCode = 200, !.status = "started",
                                          !.spec_id = SPEC_ID,
                                          !.first_question = first_question,
                                          !.question_number = 1],
                       [NoTrace EXCEPT !.calls = AskCalls(ask), !.ask = ask])

(***************************************************************************)
(* The environment: what callers send and what the generator answers.      *)
(***************************************************************************)
MaxAsked == 6   \* questions a caller accepts before it gives up the dialogue

QuestionOutcomes(focus) ==
  {Failure} \cup { Returns(t) : t \in {FocusQuestion[focus]} \cup AnyFocusTexts }

\* Scenario 5 of the specification: prose around an object with an invalid
\* and a valid area.
Scenario5 ==
  <<Tok("txt"), Tok("{"),
    Members(StakeholderList(<<Entry("Marketing"), Entry("Compliance")>>)),
    Tok("}"), Tok("txt")>>

StakeholderTexts ==
  { Scenario5,
    <<Tok("{"),
      Members(StakeholderList(<<Entry("TMS"), Entry(NoneArea), Entry("PIX Backend")>>)),
      Tok("}")>>,
    <<Tok("{"), Members(StakeholderList(<<Entry("Marketing")>>)), Tok("}")>>,
    <<Tok("{"), Members(StakeholderList(<<Entry("Compliance"), NotAnObject>>)), Tok("}")>>,
    <<Tok("txt")>>,
    <<Tok("{"), Members(StakeholderList(<<Entry("Produto")>>))>>,
    <<>>,
    <<Tok("{"), Tok("junk"), Tok("}")>> }

StakeholderOutcomes == {FailureTokens} \cup { Returns(t) : t \in StakeholderTexts }

\* The two stakeholder outcomes explored on every completing turn; all of
\* StakeholderOutcomes are explored on the first turn of a dialogue.
FewStakeholderOutcomes == {FailureTokens, Returns(Scenario5)}

DocumentOutcomes == {Failure} \cup { Returns(t) : t \in DocumentTexts }

\* A generator outcome for a run that consults nothing.
NoGen == [q |-> Failure, s |-> FailureTokens, d |-> Failure]

\* The outcomes of question generation that matter to a run, given the run
\* under NoGen: those of the focus it asks with, or none when it asks nothing.
QuestionCases(first) ==
  IF first.trace.ask.invoked
  THEN QuestionOutcomes(first.trace.ask.focus)
  ELSE {Failure}

\* The runs of process_answer on event, one for each outcome of question
\* generation that matters.
TurnOutcomes(event) ==
  [q \in QuestionCases(process_answer(event, NoGen)) |->
     process_answer(event, [NoGen EXCEPT !.q = q])]

\* The runs of start_specification on event, likewise.
StartOutcomes(event) ==
  [q \in QuestionCases(start_specification(event, NoGen)) |->
     start_specification(event, [NoGen EXCEPT !.q = q])]

\* The generator behaviours that matter to a run: every combination of the
\* outcomes of the calls the run reaches (a call the run never makes keeps
\* the outcome of NoGen).
Generators(outcomes, stakeholder_outcomes) ==
  UNION { IF outcomes[q].trace.has_record
          THEN { [q |-> q, s |-> s, d |-> d] :
                   s \in stakeholder_outcomes, d \in DocumentOutcomes }
          ELSE { [NoGen EXCEPT !.q = q] } : q \in DOMAIN outcomes }

(***************************************************************************)
(* State.  The handlers keep none: the dialogue lives in the caller, which *)
(* holds the identifier, the idea, the history last returned and the       *)
(* question last emitted.  request, gen, response and trace describe the   *)
(* last handler run.                                                       *)
(***************************************************************************)
VARIABLES
  phase,             \* "idle", "started", "in_progress", "completed"
  spec_id,           \* the identifier returned by the start
  initial_idea,      \* the idea of the dialogue
  qa_history,        \* the history last returned to the caller
  current_question,  \* the question last emitted
  asked,             \* questions emitted so far in the dialogue
  op,                \* the last run: "none", "start", "turn", "direct"
  request,           \* its event
  gen,               \* the generator's behaviour in it
  response,          \* its response
  trace,             \* what it did
  sessions           \* two dialogues whose turns interleave, each beside the
                     \* same dialogue run alone

vars == <<phase, spec_id, initial_idea, qa_history, current_question, asked,
          op, request, gen, response, trace, sessions>>

dialogue == <<phase, spec_id, initial_idea, qa_history, current_question, asked>>

\* No dialogue of the interleaved pair has begun.
NoSessions == [of |-> <<>>, last |-> "", before |-> ""]

NoRequest ==
  [httpMethod |-> "", has_body |-> FALSE, idea |-> "", spec_id |-> "",
   current_question |-> "", answer |-> "", previous_answers |-> <<>>,
   initial_idea |-> ""]

Init ==
  /\ phase = "idle"
  /\ spec_id = ""
  /\ initial_idea = ""
  /\ qa_history = <<>>
  /\ current_question = ""
  /\ asked = 0
  /\ op = "none"
  /\ request = NoRequest
  /\ gen = NoGen
  /\ response = NoResponse
  /\ trace = NoTrace
  /\ sessions = NoSessions

\* One run of start_specification on event under generator behaviour g.
RunStart(event, g) ==
  LET out == start_specification(event, g)
  IN  /\ op' = "start"
      /\ UNCHANGED sessions
      /\ request' = event
      /\ gen' = g
      /\ response' = out.response
      /\ trace' = out.trace
      /\ IF out.response.status = "started"
         THEN /\ phase' = "started"
              /\ spec_id' = out.response.spec_id
              /\ initial_idea' = Stripped(event.idea)
              /\ qa_history' = <<>>
              /\ current_question' = out.response.first_question
              /\ asked' = 1
         ELSE UNCHANGED dialogue

\* A caller starts a dialogue.
Start ==
  /\ phase = "idle"
  /\ \E idea \in Ideas, method \in {"POST", "OPTIONS"}, has_body \in BOOLEAN :
       LET event == [NoRequest EXCEPT !.httpMethod = method, !.has_body = has_body,
                                      !.idea = IF has_body THEN idea ELSE ""]
       IN  \E g \in Generators(StartOutcomes(event), {FailureTokens}) :
             RunStart(event, g)

\* One run of process_answer on event under generator behaviour g; the
\* caller keeps what an in_progress or completed response returns and keeps
\* its state on any other response.
RunTurn(event, g) ==
  LET out == process_answer(event, g)
  IN  /\ op' = "turn"
      /\ UNCHANGED sessions
      /\ request' = event
      /\ gen' = g
      /\ response' = out.response
      /\ trace' = out.trace
      /\ UNCHANGED <<spec_id, initial_idea>>
      /\ CASE out.response.status = "in_progress" ->
                /\ phase' = "in_progress"
                /\ qa_history' = out.response.previous_answers
                /\ current_question' = out.response.next_question
                /\ asked' = Min(asked + 1, MaxAsked)
           [] out.response.status = "completed" ->
                /\ phase' = "completed"
                /\ qa_history' = out.response.all_answers
                /\ UNCHANGED <<current_question, asked>>
           [] OTHER -> UNCHANGED <<phase, qa_history, current_question, asked>>

TurnEvent(method, sid, answer) ==
  [NoRequest EXCEPT !.httpMethod = method, !.has_body = TRUE,
                    !.spec_id = sid,
                    !.current_question = current_question,
                    !.answer = answer,
                    !.previous_answers = qa_history,
                    !.initial_idea = initial_idea]

\* The caller answers the question last emitted and passes back the history
\* last returned.
Turn ==
  /\ phase \in {"started", "in_progress"}
  /\ asked < MaxAsked
  /\ \E answer \in Answers :
       LET event == TurnEvent("POST", spec_id, answer)
       IN  \E g \in Generators(TurnOutcomes(event),
                                 IF phase = "started" THEN StakeholderOutcomes
                                                      ELSE FewStakeholderOutcomes) :
             RunTurn(event, g)

\* The browser's preflight of the first turn.
TurnPreflight ==
  /\ phase = "started"
  /\ \E answer \in Answers : RunTurn(TurnEvent("OPTIONS", spec_id, answer), NoGen)

\* A first turn sent without the identifier.
TurnWithoutId ==
  /\ phase = "started"
  /\ \E answer \in Answers : RunTurn(TurnEvent("POST", "", answer), NoGen)

\* The handlers are stateless, so a turn can be posted with any history:
\* before any dialogue, a caller posts one turn whose previous_answers is a
\* run of consecutive pairs of SomeHistory (taken cyclically).
SomeHistory ==
  << [q |-> FocusQuestion.technical,      a |-> "Sim, claro"],
     [q |-> "E aí?",                      a |-> "Ajuda o cliente"],
     [q |-> FocusQuestion.ux,             a |-> "Sim, claro"],
     [q |-> FocusQuestion.final,          a |-> "Sim, claro"],
     [q |-> "especificacao_completa",     a |-> "Sim, claro"],
     [q |-> FocusQuestion.business_value, a |-> "Sim, claro"],
     [q |-> FocusQuestion.compliance,     a |-> "Ajuda o cliente"] >>

Run(first, n) ==
  [i \in 1..n |-> SomeHistory[((first + i - 2) % Len(SomeHistory)) + 1]]

PostedHistories ==
  { Run(first, n) : first \in 1..Len(SomeHistory),
                    n \in 0..Min(MaxHistory, Len(SomeHistory)) }

DirectTurn ==
  /\ phase = "idle"
  /\ op = "none"
  /\ \E previous_answers \in PostedHistories, answer \in Answers,
        question \in {"E aí?", FocusQuestion.business, FocusQuestion.final} :
       LET event == [NoRequest EXCEPT !.httpMethod = "POST", !.has_body = TRUE,
                                      !.spec_id = SPEC_ID,
                                      !.current_question = question,
                                      !.answer = answer,
                                      !.previous_answers = previous_answers,
                                      !.initial_idea = "Login facial com PIX"]
       IN  \E g \in Generators(TurnOutcomes(event), FewStakeholderOutcomes) :
             LET out == process_answer(event, g)
             IN  /\ op' = "direct"
                 /\ request' = event
                 /\ gen' = g
                 /\ response' = out.response
                 /\ trace' = out.trace
                 /\ UNCHANGED <<dialogue, sessions>>

Next == Start \/ Turn \/ TurnPreflight \/ TurnWithoutId \/ DirectTurn

Spec == Init /\ [][Next]_vars

(***************************************************************************)
(* The planner alone.  ask_specification_question and                      *)
(* _get_next_category_focus are methods a caller can invoke with any       *)
(* arguments: PlannerSpec applies them to inputs drawn from bounded sets.  *)
(***************************************************************************)
\* Pairs a history handed to the planner is made of, in the order they are
\* inserted.
PlannerPairs ==
  << [q |-> FocusQuestion.business,            a |-> "Sim, claro"],
     [q |-> "Cadastro boleto limite extrato",  a |-> "Sim, claro"],
     [q |-> FocusQuestion.technical,           a |-> "Sim, claro"],
     [q |-> "cadastro boleto agenda parcela",  a |-> "Sim, claro"],
     [q |-> FocusQuestion.compliance,          a |-> "Sim, claro"],
     [q |-> "cadastro boleto limite saldo",    a |-> "Sim, claro"],
     [q |-> FocusQuestion.ux,                  a |-> "Sim, claro"],
     [q |-> "Como qual e?",                    a |-> "Ajuda o cliente"],
     [q |-> FocusQuestion.final,               a |-> "Sim, claro"],
     [q |-> "saldo diario",                    a |-> "Sim, claro"] >>

RECURSIVE Selected(_, _)
\* The pairs of PlannerPairs whose index is in chosen, in their order, from
\* index i on.
Selected(chosen, i) ==
  IF i > Len(PlannerPairs) THEN <<>>
  ELSE (IF i \in chosen THEN <<PlannerPairs[i]>> ELSE <<>>) \o Selected(chosen, i + 1)

PlannerHistories ==
  { Selected(chosen, 1) :
      chosen \in { c \in SUBSET (1..Len(PlannerPairs)) : Cardinality(c) <= MaxPlanned } }

\* _get_next_category_focus called with any set of categories and any count
\* below the cap.
PlanFocus ==
  /\ op = "none"
  /\ \E answered_categories \in SUBSET Categories, total_questions \in 0..(MaxQuestions - 1) :
       /\ op' = "focus"
       /\ trace' = [NoTrace EXCEPT
                      !.ask = [NoAsk EXCEPT
                                 !.total = total_questions,
                                 !.answered_categories = answered_categories,
                                 !.focus = get_next_category_focus(answered_categories,
                                                                   total_questions)]]
       /\ UNCHANGED <<dialogue, request, gen, response, sessions>>

\* ask_specification_question called with any history and any text returned
\* by the generator.
AskDirect ==
  /\ op = "none"
  /\ \E previous_answers \in PlannerHistories, question \in GuardQuestions \cup {"E aí?"} :
       LET g == [NoGen EXCEPT !.q = Returns(question)]
           ask == ask_specification_question("Login facial com PIX", previous_answers, g.q)
       IN  /\ op' = "ask"
           /\ request' = [NoRequest EXCEPT !.previous_answers = previous_answers,
                                           !.initial_idea = "Login facial com PIX"]
           /\ gen' = g
           /\ trace' = [NoTrace EXCEPT !.calls = AskCalls(ask), !.ask = ask]
           /\ UNCHANGED <<dialogue, response, sessions>>

PlannerNext == PlanFocus \/ AskDirect

PlannerSpec == Init /\ [][PlannerNext]_vars

(***************************************************************************)
(* Properties.                                                             *)
(***************************************************************************)
\* The last run was a turn (of the dialogue or posted directly).
IsTurn == op \in {"turn", "direct"}

\* The history the last run handed to planning or finalization.
Handed == IF trace.has_record THEN trace.record ELSE response.previous_answers

\* The history the last run returned to the caller.
Returned ==
  IF response.status = "completed" THEN response.all_answers ELSE response.previous_answers

\* The last run was a turn whose request passed every validation.
Accepted ==
  /\ IsTurn
  /\ request.httpMethod = "POST"
  /\ request.spec_id # ""
  /\ request.current_question # ""
  /\ Len(Stripped(request.answer)) >= 5

\* C1: in ask_specification_question a history of 5 or more pairs returns
\* the completion sentinel at the cap test, before a focus is chosen and
\* without the generator being invoked, whatever the categories covered; a
\* history of 4 pairs does not return at the cap test and gets a focus.
C1_CapForcesComplete ==
  trace.ask.called =>
    /\ Len(Handed) >= 5 =>
         /\ trace.ask.returned = SENTINEL
         /\ trace.ask.via = "cap"
         /\ trace.ask.focus = "none"
         /\ ~trace.ask.invoked
         /\ \A i \in 1..Len(trace.calls) : trace.calls[i] # "question"
    /\ Len(Handed) = 4 =>
         /\ trace.ask.via # "cap"
         /\ trace.ask.focus # "none"

\* A planning call on exactly 5 pairs that leaves categories uncovered.
C1_Witness ==
  /\ trace.ask.called
  /\ Len(Handed) = 5
  /\ trace.ask.answered_categories # Categories
  /\ trace.ask.via = "cap"

\* C2: a dialogue never emits a sixth question: the first question and the
\* next_question of every in_progress response number at most 5.
C2_AtMostFiveQuestions == asked <= MaxQuestions

\* C3 as stated: every accepted answer gives a history with exactly one more
\* pair than previous_answers.
C3_ExactlyOneMorePair ==
  (IsTurn /\ response.status \in {"in_progress", "completed"}) =>
    Len(Returned) = Len(request.previous_answers) + 1

\* C3 as amended: the history handed to planning or finalization is the one
\* returned, and it has one more pair than previous_answers when the answer
\* holds no complaint phrase and current_question is no key of
\* previous_answers, and as many pairs as previous_answers otherwise.
C3_OneMorePairUnlessOverwriteOrComplaint ==
  (IsTurn /\ response.status \in {"in_progress", "completed"}) =>
    /\ Handed = Returned
    /\ Len(Returned) =
         Len(request.previous_answers)
         + (IF \/ ContainsAny(Lower(Stripped(request.answer)), ComplaintPhrases)
               \/ \E i \in 1..Len(request.previous_answers) :
                    request.previous_answers[i].q = request.current_question
            THEN 0 ELSE 1)

\* A turn of a dialogue, on a history of two or more pairs, that answered a
\* question already in the history and returned a history of the same length.
C3_Witness ==
  /\ op = "turn"
  /\ response.status = "in_progress"
  /\ Len(request.previous_answers) >= 2
  /\ \E i \in 1..Len(request.previous_answers) :
       request.previous_answers[i].q = request.current_question
  /\ Len(response.previous_answers) = Len(request.previous_answers)

\* C4: the categories computed from the history never shrink from one
\* accepted turn of a dialogue to the next.
C4_CoverageNeverShrinks ==
  [][AnsweredCategories(qa_history) \subseteq AnsweredCategories(qa_history')]_vars

C6_ShortAnswerRejected ==
  [][ (IsTurn' /\ Len(Stripped(request'.answer)) < 5) =>
        /\ response'.status \in {"error", "preflight"}
        /\ request'.httpMethod = "POST" =>
             /\ response'.status = "error"
             /\ response'.statusCode = 400
        /\ trace' = NoTrace
        /\ response'.next_question = ""
        /\ response'.previous_answers = <<>>
        /\ response'.all_answers = <<>>
        /\ UNCHANGED dialogue ]_vars

\* A 3-character answer rejected in the middle of a dialogue.
C6_Witness ==
  /\ op = "turn"
  /\ phase = "in_progress"
  /\ Len(Stripped(request.answer)) = 3
  /\ response.error = "A resposta deve ter pelo menos 5 caracteres"

\* C7: an accepted answer holding a complaint phrase, in any case of
\* letters, completes the turn at once: no planning call, no question
\* generation, only the two finalization calls.
C7_ComplaintCompletes ==
  (Accepted /\ ContainsAny(Lower(Stripped(request.answer)), ComplaintPhrases)) =>
    /\ response.status = "completed"
    /\ ~trace.ask.called
    /\ trace.calls = <<"stakeholders", "document">>

\* A complaint in upper case on a history of two or more pairs.
C7_Witness ==
  /\ Accepted
  /\ Stripped(request.answer) = "VOCÊ JÁ PERGUNTOU isso"
  /\ Len(request.previous_answers) >= 2
  /\ AnsweredCategories(request.previous_answers) # {}
  /\ response.status = "completed"

\* C8: when the generator fails during question generation the turn ends
\* with an error: it does not complete and no finalization is performed.
C8_QuestionFailureIsError ==
  (IsTurn /\ trace.ask.invoked /\ ~gen.q.ok) =>
    /\ response.status = "error"
    /\ ~trace.has_record

\* C9: when the generator fails during document generation the turn does not
\* return status completed with a final document.
C9_DocumentFailureIsFailure ==
  (IsTurn /\ trace.has_record /\ ~gen.d.ok) => response.status # "completed"

\* C10: when the stakeholder response parses, the stakeholders returned are
\* exactly its entries with a valid area, in their order.
C10_ValidAreasKept ==
  LET text     == gen.s.text
      json_str == Slice(text, Find(text, "{"), RFind(text, "}") + 1)
  IN  (IsTurn /\ trace.has_record /\ gen.s.ok
         /\ Find(text, "{") # -1 /\ JsonDecodes(json_str)) =>
        response.stakeholders =
          SelectSeq(json_str[2].body.stakeholders, LAMBDA e : e.area \in ValidAreas)

\* The last run's stakeholder response is one json.loads cannot decode: it
\* is empty, holds no member list, or lacks the closing brace.
Undecodable ==
  /\ gen.s.ok
  /\ \/ Len(gen.s.text) = 0
     \/ \A i \in 1..Len(gen.s.text) : gen.s.text[i].t # "members"
     \/ \A i \in 1..Len(gen.s.text) : gen.s.text[i].t # "}"

\* C11: an empty or unparseable stakeholder response never surfaces as an
\* error: the turn completes and its stakeholder list is the rule-based
\* fallback, which is not empty and ends with the Suporte stakeholder.
C11_UnparseableGivesFallback ==
  (IsTurn /\ trace.has_record /\ Undecodable) =>
    /\ response.status = "completed"
    /\ response.statusCode = 200
    /\ trace.stakeholder_source = "fallback"
    /\ Len(response.stakeholders) >= 1
    /\ response.stakeholders[Len(response.stakeholders)].area = "Suporte"
    /\ \A i \in 1..Len(response.stakeholders) :
         response.stakeholders[i].reason # "generator"

\* A completing turn whose stakeholder response has braces around members
\* that do not decode.
C11_Witness ==
  /\ IsTurn
  /\ trace.has_record
  /\ gen.s.ok
  /\ Len(gen.s.text) = 3
  /\ gen.s.text[2].t = "junk"
  /\ response.status = "completed"
  /\ Len(response.stakeholders) > 1

\* C12: the stakeholder list of every completed response is non-empty: a
\* stakeholder call that ends with no surviving entry uses the fallback.
C12_CompletedHasStakeholders ==
  (IsTurn /\ response.status = "completed") => Len(response.stakeholders) >= 1

\* C13: whenever the fallback is used, whichever failure triggered it, the
\* stakeholders are those its keyword rules give for the initial idea joined
\* with the answers of the history.
C13_FallbackReadsIdeaAndAnswers ==
  (IsTurn /\ trace.stakeholder_source = "fallback") =>
    response.stakeholders =
      FallbackTable[FeatureContext([initial_idea |-> request.initial_idea,
                                    questions_answers |-> trace.record])].stakeholders

\* The last run was a call of the planner alone that reached the generator.
Generated == op = "ask" /\ trace.ask.invoked

C15_ProgressNumbers ==
  (IsTurn /\ response.status = "in_progress") =>
    LET n     == Len(response.previous_answers)
        total == IF n + 1 > 5 THEN n + 1 ELSE 5
        floor == CHOOSE k \in 0..100 : k * total <= 100 * n /\ 100 * n < (k + 1) * total
    IN  /\ response.question_number = n + 1
        /\ response.current = n
        /\ response.estimated_total = total
        /\ response.percentage = (IF floor > 95 THEN 95 ELSE floor)
        /\ response.percentage < 100

\* An in_progress turn of a dialogue returning four pairs, at 80 percent.
C15_Witness ==
  /\ op = "turn"
  /\ response.status = "in_progress"
  /\ Len(response.previous_answers) = 4
  /\ response.question_number = 5
  /\ response.percentage = 80

\* C16: the history an accepted answer without complaint is stored in is
\* previous_answers with the pair upserted: when current_question is
\* already a key only its answer changes, otherwise the pair is appended at
\* the end; every other pair keeps its answer and position, the question is
\* a key once, and upserting the same pair again changes nothing.
C16_UpsertIsIdempotent ==
  (Accepted /\ response.status \in {"in_progress", "completed"}
     /\ ~ContainsAny(Lower(Stripped(request.answer)), ComplaintPhrases)) =>
    LET prev   == request.previous_answers
        q      == request.current_question
        a      == Stripped(request.answer)
        new    == Handed
        is_key == \E i \in 1..Len(prev) : prev[i].q = q
    IN  /\ is_key =>
             /\ Len(new) = Len(prev)
             /\ \A i \in 1..Len(prev) :
                  new[i] = (IF prev[i].q = q THEN [q |-> q, a |-> a] ELSE prev[i])
        /\ ~is_key =>
             /\ Len(new) = Len(prev) + 1
             /\ new[Len(new)] = [q |-> q, a |-> a]
             /\ \A i \in 1..Len(prev) : new[i] = prev[i]
        /\ Cardinality({ i \in 1..Len(new) : new[i].q = q }) = 1
        /\ Upsert(new, q, a) = new
        /\ Upsert(Upsert(prev, q, a), q, a) = new

\* A new answer to a question that is a key of the history, followed there
\* by another pair: the answer is overwritten in place.
C16_Witness ==
  /\ Accepted
  /\ response.status \in {"in_progress", "completed"}
  /\ Len(request.previous_answers) >= 2
  /\ \E i \in 1..(Len(request.previous_answers) - 1) :
       /\ request.previous_answers[i].q = request.current_question
       /\ request.previous_answers[i].a # Stripped(request.answer)
       /\ Handed[i] = [q |-> request.current_question, a |-> Stripped(request.answer)]
  /\ Len(Handed) = Len(request.previous_answers)

\* C17: a start (POST) with an idea of at least 10 characters after
\* trimming returns status started with a spec_id, question_number 1 and,
\* as first question, the text the generator produced when asked with the
\* business focus on an empty history; an idea that is empty or shorter is
\* rejected with a validation error and no generator call.
C17_StartGivesBusinessQuestion ==
  (op = "start" /\ request.httpMethod = "POST" /\ request.has_body) =>
    IF Len(Stripped(request.idea)) >= 10
    THEN /\ response.statusCode = 200
         /\ response.status = "started"
         /\ response.spec_id # ""
         /\ response.question_number = 1
         /\ trace.ask.called
         /\ trace.ask.total = 0
         /\ trace.ask.focus = "business"
         /\ trace.calls = <<"question">>
         /\ trace.ask.via = "generated"
         /\ gen.q.ok
         /\ response.first_question = Stripped(gen.q.text)
    ELSE /\ response.statusCode = 400
         /\ response.status = "error"
         /\ trace.calls = <<>>
         /\ ~trace.ask.called

\* C18: an OPTIONS request to either handler gets the fixed 200 preflight
\* response: nothing of the body is validated and no call is made.
C18_PreflightIs200 ==
  (op \in {"start", "turn", "direct"} /\ request.httpMethod = "OPTIONS") =>
    /\ response.statusCode = 200
    /\ response.status = "preflight"
    /\ trace = NoTrace

\* C19: for every set of covered categories and every count of 0..4 the
\* focus is the first match of the policy: count 0 -> business; count 1 and
\* business not covered -> business; count <= 2 and technical not covered ->
\* technical; count <= 3 and compliance not covered -> compliance; count <= 4
\* and ux not covered -> ux; otherwise the closing (operational) focus,
\* covered or not.
C19_FocusPolicy ==
  (op \in {"focus", "ask"} /\ trace.ask.focus # "none") =>
    LET n      == trace.ask.total
        cov    == trace.ask.answered_categories
        target == FocusCategory[trace.ask.focus]
    IN  /\ n \in 0..4
        /\ target =
             (IF n = 0 THEN "business"
              ELSE IF n = 1 /\ "business" \notin cov THEN "business"
              ELSE IF n <= 2 /\ "technical" \notin cov THEN "technical"
              ELSE IF n <= 3 /\ "compliance" \notin cov THEN "compliance"
              ELSE IF n <= 4 /\ "ux" \notin cov THEN "ux"
              ELSE "operational")
        /\ trace.ask.focus = "business" <=> n = 0
        /\ (n >= 1 /\ cov = Categories) => trace.ask.focus = "final"

\* The focus for count 2 with nothing but operational covered is technical,
\* although business is not covered: the business slot has passed.
C19_Witness ==
  /\ op = "focus"
  /\ trace.ask.total = 2
  /\ trace.ask.answered_categories = {"operational"}
  /\ trace.ask.focus = "technical"

\* C20: in every call of the planner, whose coverage is computed from the
\* history it is given, the focus is never business, technical, compliance
\* or ux when that category is covered, and at most one question is asked
\* of the generator.
C20_NoCoveredFocus ==
  (op = "ask" /\ trace.ask.called) =>
    /\ trace.ask.answered_categories = AnsweredCategories(request.previous_answers)
    /\ trace.ask.total = Len(request.previous_answers)
    /\ trace.ask.focus # "none" =>
         /\ trace.ask.focus \in Focuses
         /\ FocusCategory[trace.ask.focus] \in {"business", "technical", "compliance", "ux"} =>
              FocusCategory[trace.ask.focus] \notin trace.ask.answered_categories
         /\ trace.calls = <<"question">>
    /\ trace.ask.focus = "none" => trace.calls = <<>>

\* A call on two pairs covering business and technical: the focus skips to
\* compliance.
C20_Witness ==
  /\ op = "ask"
  /\ trace.ask.total = 2
  /\ trace.ask.answered_categories = {"business", "technical"}
  /\ trace.ask.focus = "compliance"

\* The question the generator returned in the last run shares more than
\* half of its keywords with the question at position i of the updated
\* history.
RepeatsQuestion(i) ==
  LET new  == KeywordTable[Stripped(gen.q.text)]
      prev == KeywordTable[Handed[i].q]
  IN  /\ new # {}
      /\ prev # {}
      /\ 2 * Cardinality(new \cap prev) > Min(Cardinality(new), Cardinality(prev))

\* C21: when the question generated in a turn repeats a question of the
\* updated history, the question just answered included, the turn completes
\* and runs finalization, and the generator was asked for a question once.
C21_RepetitionCompletes ==
  (IsTurn /\ trace.ask.invoked /\ gen.q.ok
     /\ \E i \in 1..Len(Handed) : RepeatsQuestion(i)) =>
    /\ trace.ask.via = "repetitive"
    /\ response.status = "completed"
    /\ trace.has_record
    /\ trace.calls = <<"question", "stakeholders", "document">>
    /\ response.next_question = ""

\* A turn whose generated question repeats the question just answered, the
\* last of an updated history of four pairs, and no other.
C21_Witness ==
  /\ IsTurn
  /\ trace.ask.via = "repetitive"
  /\ Len(request.previous_answers) = 3
  /\ Len(Handed) = 4
  /\ Handed[4].q = request.current_question
  /\ RepeatsQuestion(4)
  /\ \A i \in 1..3 : ~RepeatsQuestion(i)
  /\ response.status = "completed"

\* The generator calls of the last run, in order, are some of question,
\* stakeholders, document: a question call or none, then both finalization
\* calls or neither.
InCallOrder ==
  trace.calls \in { <<>>, <<"question">>, <<"stakeholders", "document">>,
                    <<"question", "stakeholders", "document">> }

\* C22: a turn makes at most three generator calls, in the order question,
\* stakeholders, document; the last two only on a turn that completes; an
\* in_progress turn makes the question call alone; a turn completed by the
\* cap or by a complaint makes no question call; a rejected turn makes none.
C22_CallsPerTurn ==
  IsTurn =>
    /\ InCallOrder
    /\ Len(trace.calls) > 1 => response.status = "completed"
    /\ response.status = "completed" =>
         SubSeq(trace.calls, Len(trace.calls) - 1, Len(trace.calls))
           = <<"stakeholders", "document">>
    /\ response.status = "in_progress" => trace.calls = <<"question">>
    /\ (response.status = "completed"
          /\ (trace.ask.via = "cap" \/ ~trace.ask.called)) =>
         trace.calls = <<"stakeholders", "document">>
    /\ (Accepted /\ ComplaintTable[Stripped(request.answer)]) =>
         /\ response.status = "completed"
         /\ ~trace.ask.called
    /\ response.statusCode = 400 => trace.calls = <<>>

\* A turn completed by the cap, with the two finalization calls and no
\* question call.
C22_Witness ==
  /\ IsTurn
  /\ Accepted
  /\ ~ComplaintTable[Stripped(request.answer)]
  /\ Len(Handed) >= MaxQuestions
  /\ trace.ask.via = "cap"
  /\ response.status = "completed"
  /\ trace.calls = <<"stakeholders", "document">>

(***************************************************************************)
(* A dialogue whose caller never gives up: it starts with an idea that     *)
(* passes validation and keeps answering the question last emitted with    *)
(* an answer that passes validation, one turn at a time, and no generator  *)
(* call fails.  The count of questions emitted stops at MaxAsked.          *)
(***************************************************************************)
\* The generator behaviours of such a dialogue: the question it returns
\* when asked with focus, one stakeholder text and one document.
WillingGenerators(focus) ==
  { [q |-> Returns(t), s |-> Returns(Scenario5), d |-> Returns(doc)] :
      t \in {FocusQuestion[focus]} \cup AnyFocusTexts, doc \in DocumentTexts }

\* The focus planning takes on the history event leads to.
FocusAfter(event) ==
  LET updated_answers ==
        Upsert(event.previous_answers, event.current_question, Stripped(event.answer))
  IN  get_next_category_focus(AnsweredCategories(updated_answers), Len(updated_answers))

StartDialogue ==
  /\ phase = "idle"
  /\ \E idea \in Ideas :
       /\ Len(Stripped(idea)) >= MinIdeaLen
       /\ \E g \in WillingGenerators(get_next_category_focus({}, 0)) :
            RunStart([NoRequest EXCEPT !.httpMethod = "POST", !.has_body = TRUE,
                                       !.idea = idea], g)

AnswerTurn ==
  /\ phase \in {"started", "in_progress"}
  /\ \E answer \in Answers :
       /\ Len(Stripped(answer)) >= MinAnswerLen
       /\ \E g \in WillingGenerators(FocusAfter(TurnEvent("POST", spec_id, answer))) :
            RunTurn(TurnEvent("POST", spec_id, answer), g)

DialogueNext == StartDialogue \/ AnswerTurn

\* The caller keeps going: a start or a turn that can be made is made.
DialogueSpec ==
  Init /\ [][DialogueNext]_vars /\ WF_vars(StartDialogue) /\ WF_vars(AnswerTurn)

\* C23: a dialogue whose caller keeps answering the question last emitted
\* with valid answers, the generator never failing, eventually reaches
\* completed.
C23_DialogueTerminates == <>(phase = "completed")

\* The question emitted by the last run shares more than half of its
\* keywords with the question at position i of the history it returned.
EmittedRepeats(i) ==
  LET new  == KeywordTable[response.next_question]
      prev == KeywordTable[response.previous_answers[i].q]
  IN  /\ new # {}
      /\ prev # {}
      /\ 2 * Cardinality(new \cap prev) > Min(Cardinality(new), Cardinality(prev))

\* C24: in every in_progress response the updated history has at most 4
\* pairs, the answer holds no complaint phrase, and the next question is
\* neither the sentinel in any letter case nor a repetition of a question of
\* the updated history.
C24_InProgressResponse ==
  (IsTurn /\ response.status = "in_progress") =>
    /\ Len(response.previous_answers) <= MaxQuestions - 1
    /\ ~ComplaintTable[Stripped(request.answer)]
    /\ Upper(response.next_question) # SENTINEL
    /\ \A i \in 1..Len(response.previous_answers) : ~EmittedRepeats(i)

\* An in_progress response whose history has four pairs, where the next
\* question and a question of the history both have keywords.
C24_Witness ==
  /\ IsTurn
  /\ response.status = "in_progress"
  /\ Len(response.previous_answers) = MaxQuestions - 1
  /\ KeywordTable[response.next_question] # {}
  /\ \E i \in 1..Len(response.previous_answers) :
       KeywordTable[response.previous_answers[i].q] # {}

\* record is history with the answer to question put in: at the place of
\* question when it is a key of history, at the end otherwise.
IsUpsertOf(record, history, question, answer) ==
  IF \E i \in 1..Len(history) : history[i].q = question
  THEN /\ Len(record) = Len(history)
       /\ \A i \in 1..Len(history) :
            record[i] = IF history[i].q = question
                        THEN [q |-> question, a |-> answer]
                        ELSE history[i]
  ELSE record = Append(history, [q |-> question, a |-> answer])

\* C25: a turn completed through a complaint records the caller's
\* previous_answers unchanged (record, all_answers and total_questions);
\* every other completing turn records previous_answers with
\* (current_question, answer) upserted.
C25_CompletedRecord ==
  (IsTurn /\ response.status = "completed") =>
    /\ response.all_answers = trace.record
    /\ response.total_questions = Len(trace.record)
    /\ IF ComplaintTable[Stripped(request.answer)]
       THEN trace.record = request.previous_answers
       ELSE IsUpsertOf(trace.record, request.previous_answers,
                       request.current_question, Stripped(request.answer))

\* A turn completed through a complaint about a question that is not yet a
\* key of a non-empty history: the record is the history as it was sent.
C25_Witness ==
  /\ IsTurn
  /\ response.status = "completed"
  /\ ComplaintTable[Stripped(request.answer)]
  /\ Len(request.previous_answers) >= 1
  /\ ~HasKey(request.previous_answers, request.current_question)
  /\ response.all_answers = request.previous_answers
  /\ response.total_questions = Len(request.previous_answers)

\* C26: a response with status started never carries the completion
\* sentinel as its first question, whatever the generator did on the start
\* call.
C26_FirstQuestionIsReal ==
  (op = "start" /\ response.status = "started") =>
    response.first_question # SENTINEL

(***************************************************************************)
(* Two dialogues, A and B, whose turns reach the handler in any order.     *)
(* Each caller holds its own dialogue (identifier, idea, history, question *)
(* last emitted) and sends it with every turn; beside each dialogue the    *)
(* model runs the same dialogue alone, on the same answers and generator   *)
(* outcomes.  Both dialogues have been started.                            *)
(***************************************************************************)
MaxPairTurns == 3   \* turns a dialogue of the pair makes

Dialogues == {"A", "B"}

FirstSession(d) ==
  [spec_id |-> IF d = "A" THEN "spec-1" ELSE "spec-2",
   initial_idea |-> "Login facial com PIX",
   phase |-> "started",
   history |-> <<>>,
   question |-> IF d = "A" THEN FocusQuestion.business ELSE "E aí?",
   response |-> NoResponse]

PairAnswers(d) ==
  IF d = "A" THEN {"Sim, claro", " abc "}
             ELSE {"  Ajuda o cliente ", "VOCÊ JÁ PERGUNTOU isso"}

PairInit ==
  /\ phase = "idle"
  /\ spec_id = ""
  /\ initial_idea = ""
  /\ qa_history = <<>>
  /\ current_question = ""
  /\ asked = 0
  /\ op = "none"
  /\ request = NoRequest
  /\ gen = NoGen
  /\ response = NoResponse
  /\ trace = NoTrace
  /\ sessions = [of |-> [d \in Dialogues |->
                           [held |-> FirstSession(d), alone |-> FirstSession(d),
                            turns |-> 0]],
                 last |-> "", before |-> ""]

\* What a caller holds after the response of a turn.
After(session, out) ==
  CASE out.response.status = "in_progress" ->
         [session EXCEPT !.phase = "in_progress",
                         !.history = out.response.previous_answers,
                         !.question = out.response.next_question,
                         !.response = out.response]
    [] out.response.status = "completed" ->
         [session EXCEPT !.phase = "completed",
                         !.history = out.response.all_answers,
                         !.response = out.response]
    [] OTHER -> [session EXCEPT !.response = out.response]

\* The event of a turn made from what a caller holds.
EventFrom(session, answer) ==
  [NoRequest EXCEPT !.httpMethod = "POST", !.has_body = TRUE,
                    !.spec_id = session.spec_id,
                    !.current_question = session.question,
                    !.answer = answer,
                    !.previous_answers = session.history,
                    !.initial_idea = session.initial_idea]

\* (a handler that works from the history of the invocation before, whoever
\* made it, instead of the one in the body)
EventOf_LastHistory(d, answer) ==
  [EventFrom(sessions.of[d].held, answer) EXCEPT
     !.previous_answers =
        IF op = "none" THEN sessions.of[d].held.history
        ELSE IF response.status = "completed" THEN response.all_answers
        ELSE IF response.status = "in_progress" THEN response.previous_answers
        ELSE request.previous_answers]

\* body.get(...): the turn of dialogue d as the handler reads it, every
\* field from the body the caller of d sent.
EventOf(d, answer) == EventFrom(sessions.of[d].held, answer)

PairTurn ==
  \E d \in Dialogues :
    /\ sessions.of[d].held.phase \in {"started", "in_progress"}
    /\ sessions.of[d].turns < MaxPairTurns
    /\ \E answer \in PairAnswers(d) :
         \E g \in WillingGenerators(FocusAfter(EventFrom(sessions.of[d].alone, answer)))
                    \cup {NoGen} :
           LET event     == EventOf(d, answer)
               out       == process_answer(event, g)
               alone_out == process_answer(EventFrom(sessions.of[d].alone, answer), g)
           IN  /\ op' = "turn"
               /\ request' = event
               /\ gen' = g
               /\ response' = out.response
               /\ trace' = out.trace
               /\ sessions' =
                    [of |-> [sessions.of EXCEPT
                               ![d] = [held  |-> After(@.held, out),
                                       alone |-> After(@.alone, alone_out),
                                       turns |-> @.turns + 1]],
                     last |-> d, before |-> sessions.last]
               /\ UNCHANGED dialogue

PairSpec == PairInit /\ [][PairTurn]_vars

====
